---- MODULE Spec2Model ----
(***************************************************************************)
(* Model of the flat-file note store of src/tools/note_tools/tool.py:      *)
(* one Markdown file per note, the note index (index.json) and the tag     *)
(* index (tags.json), with the operations add_note, edit_note and          *)
(* delete_note.                                                            *)
(*                                                                         *)
(* Text is modelled as a sequence of one-character strings, so that the    *)
(* regular expressions and string methods of the code are computed         *)
(* character by character.                                                 *)
(***************************************************************************)
EXTENDS Integers, Sequences, FiniteSets, TLC

(***************************************************************************)
(* Bounds of the model.                                                    *)
(***************************************************************************)
\* largest value of the clock (epoch seconds)
MaxClock == 1
\* number of clock seconds in one calendar date of the model
DayLen == 2
\* number of add_note calls of one behaviour
MaxAdds == 2
\* number of calls of one behaviour of interleaved callers
MaxCalls == 2
\* length of the longest title of the calls that try every title
MaxTitleLen == 3

(***************************************************************************)
(* Inputs of the model.                                                    *)
(***************************************************************************)
\* the add_note calls of the model, as (title, content, subject): the titles
\* "a" and "A!" have the same slug "a"; the contents are "#a #b" and "#c";
\* the subjects are "" (the default) and "s"
AddInputs ==
  { [title |-> <<"a">>, content |-> <<"#", "a", " ", "#", "b">>, subject |-> <<>>],
    [title |-> <<"A", "!">>, content |-> <<"#", "c">>, subject |-> <<"s">>] }
\* the contents edit_note is called with: "#c" and "x" (no tag)
Contents == { <<"#", "c">>, <<"x">> }

(***************************************************************************)
(* Characters.                                                             *)
(***************************************************************************)
LowerLetters == {"a", "b", "c", "s", "x"}
UpperLetters == {"A", "B"}
DigitChars == {"0", "1", "2", "3", "4", "5", "6", "7", "8", "9"}
\* \w of the re module
IsWord(ch) == ch \in LowerLetters \cup UpperLetters \cup DigitChars \cup {"_"}
\* \s of the re module, and the characters str.strip() removes
IsSpace(ch) == ch \in {" ", "\t", "\n"}
\* str.lower() on one character
LowerChar(ch) ==
  CASE ch = "A" -> "a"
    [] ch = "B" -> "b"
    [] ch = "D" -> "d"
    [] ch = "S" -> "s"
    [] ch = "T" -> "t"
    [] OTHER -> ch

Range(s) == { s[i] : i \in 1..Len(s) }

\* str.lower()
Lower(s) == [i \in 1..Len(s) |-> LowerChar(s[i])]

\* a substitution that lets the full stop through
RECURSIVE StripPunct_dot(_)
StripPunct_dot(s) ==
  IF s = <<>> THEN <<>>
  ELSE IF IsWord(Head(s)) \/ IsSpace(Head(s)) \/ Head(s) \in {"-", "."}
       THEN <<Head(s)>> \o StripPunct_dot(Tail(s))
       ELSE StripPunct_dot(Tail(s))

\* re.sub(r"[^\w\s-]", "", title)
RECURSIVE StripPunct(_)
StripPunct(s) ==
  IF s = <<>> THEN <<>>
  ELSE IF IsWord(Head(s)) \/ IsSpace(Head(s)) \/ Head(s) = "-"
       THEN <<Head(s)>> \o StripPunct(Tail(s))
       ELSE StripPunct(Tail(s))

\* str.strip()
RECURSIVE LStrip(_)
LStrip(s) ==
  IF s # <<>> /\ IsSpace(Head(s)) THEN LStrip(Tail(s)) ELSE s
RECURSIVE RStrip(_)
RStrip(s) ==
  IF s # <<>> /\ IsSpace(s[Len(s)]) THEN RStrip(SubSeq(s, 1, Len(s) - 1)) ELSE s
Strip(s) == RStrip(LStrip(s))

\* str.replace(" ", "-")
ReplaceSpace(s) == [i \in 1..Len(s) |-> IF s[i] = " " THEN "-" ELSE s[i]]

\* safe_title of add_note
safe_title(title) == Lower(ReplaceSpace(Strip(StripPunct(title))))

\* the maximal run of word characters at the head of s
RECURSIVE WordRun(_)
WordRun(s) ==
  IF s # <<>> /\ IsWord(Head(s)) THEN <<Head(s)>> \o WordRun(Tail(s)) ELSE <<>>

\* re.findall(r"#(\w+)", content)
RECURSIVE extract_tags(_)
extract_tags(content) ==
  IF content = <<>> THEN <<>>
  ELSE IF Head(content) = "#" /\ WordRun(Tail(content)) # <<>>
       THEN <<WordRun(Tail(content))>>
              \o extract_tags(SubSeq(content, 2 + Len(WordRun(Tail(content))),
                                     Len(content)))
       ELSE extract_tags(Tail(content))


(***************************************************************************)
(* State.                                                                  *)
(***************************************************************************)
VARIABLES
  files,      \* the notes directory: filename -> text of the note file
  indexFile,  \* index.json: [st |-> "absent" | "ok", val |-> list of entries]
  tagsFile,   \* tags.json:  [st |-> "absent" | "ok", val |-> tag -> list of ids]
  now,        \* the clock, int(time.time())
  issued,     \* history: the ids add_note has returned, in order
  last,       \* history: the call that returned last
  pc,         \* interleaved calls: the position of each caller in its call
  loc,        \* interleaved calls: the local variables of each caller
  trace,      \* history: the stores each caller's current call has written
  started,    \* history: the number of interleaved calls started
  reply       \* the answer of the read-only call made since the last change

storeVars == <<files, indexFile, tagsFile>>
procVars == <<pc, loc, trace, started>>
vars == <<files, indexFile, tagsFile, now, issued, last, pc, loc, trace, started,
          reply>>

\* the JSON null that add_note stores for an empty subject
None == <<"None">>
\* the empty JSON object
EmptyMap == [t \in {} |-> <<>>]
\* truth value of a string or None
Truthy(s) == s # None /\ s # <<>>

(***************************************************************************)
(* Storage initialisation and index access.                                *)
(***************************************************************************)
\* ensure_notes_directory that writes index.json whether it exists or not
ensure_index_overwrite(f) == [st |-> "ok", val |-> <<>>]
\* ensure_notes_directory, for index.json
ensure_index(f) == IF f.st = "absent" THEN [st |-> "ok", val |-> <<>>] ELSE f
\* ensure_notes_directory, for tags.json
ensure_tags(f) == IF f.st = "absent" THEN [st |-> "ok", val |-> EmptyMap] ELSE f

\* get_note_index that returns what it can make out of a damaged index.json
get_note_index_lenient(f) == IF f.st = "absent" THEN <<>> ELSE f.val
\* json.load of index.json, [] on json.JSONDecodeError
get_note_index(f) == IF f.st = "ok" THEN f.val ELSE <<>>
save_note_index(index) == [st |-> "ok", val |-> index]
get_tags(f) == IF f.st = "ok" THEN f.val ELSE EmptyMap
save_tags(tags) == [st |-> "ok", val |-> tags]

(***************************************************************************)
(* Tag index maintenance.                                                  *)
(***************************************************************************)
\* list.remove(x) when x is in the list: drops the first occurrence
RECURSIVE ListRemove(_, _)
ListRemove(lst, x) ==
  IF lst = <<>> THEN <<>>
  ELSE IF Head(lst) = x THEN Tail(lst)
       ELSE <<Head(lst)>> \o ListRemove(Tail(lst), x)

\* the loop "if note_id in tag_list: tag_list.remove(note_id)" over all tags
RemoveFromAll(tags_index, note_id) ==
  [t \in DOMAIN tags_index |-> ListRemove(tags_index[t], note_id)]

\* a loop that appends note_id once for every occurrence of a tag
AddToTags_each(tags_index, note_id, tags) ==
  [t \in DOMAIN tags_index \cup Range(tags) |->
     LET cur == IF t \in DOMAIN tags_index THEN tags_index[t] ELSE <<>>
         n == Cardinality({ k \in 1..Len(tags) : tags[k] = t })
     IN  cur \o [k \in 1..n |-> note_id]]

\* the loop that adds note_id to each of its tags, creating missing tags
AddToTags(tags_index, note_id, tags) ==
  [t \in DOMAIN tags_index \cup Range(tags) |->
     LET cur == IF t \in DOMAIN tags_index THEN tags_index[t] ELSE <<>>
     IN  IF t \in Range(tags) /\ note_id \notin Range(cur)
         THEN Append(cur, note_id) ELSE cur]

\* {k: v for k, v in tags_index.items() if v}
PruneEmpty(tags_index) ==
  [t \in { u \in DOMAIN tags_index : tags_index[u] # <<>> } |-> tags_index[t]]

\* update_tags that merges: the note keeps the tags it had
update_tags_merge(f, note_id, tags) ==
  save_tags(PruneEmpty(AddToTags(get_tags(f), note_id, tags)))

\* update_tags(note_id, tags): the tags.json it saves, from the one it loads
update_tags(f, note_id, tags) ==
  save_tags(PruneEmpty(AddToTags(RemoveFromAll(get_tags(f), note_id),
                                 note_id, tags)))

\* delete_note that saves the tag index as loaded
delete_tags_keep(f, note_id) == save_tags(get_tags(f))

\* the tag loop of delete_note: the tags.json it saves, from the one it loads
delete_tags(f, note_id) == save_tags(RemoveFromAll(get_tags(f), note_id))

(***************************************************************************)
(* Ids and rendering.                                                      *)
(***************************************************************************)
\* strftime("%Y-%m-%d") of a timestamp: the calendar date, one token
DateStr(ts) == <<ToString(ts \div DayLen)>>

\* note_id = f"{date_str}-{safe_title}-{timestamp}"
NoteId(title, ts) ==
  DateStr(ts) \o <<"-">> \o safe_title(title) \o <<"-">> \o <<ToString(ts)>>

\* filename = f"{note_id}.md"
Filename(note_id) == note_id \o <<".", "m", "d">>

\* ', '.join(['#' + tag for tag in tags])
RECURSIVE JoinTags(_)
JoinTags(tags) ==
  IF tags = <<>> THEN <<>>
  ELSE IF Len(tags) = 1 THEN <<"#">> \o tags[1]
       ELSE <<"#">> \o tags[1] \o <<",", " ">> \o JoinTags(Tail(tags))

\* the header and body written to the file; withSubject is the test the
\* caller makes before the Subject line
Render(title, date_str, subject, withSubject, tags, content) ==
  <<"#", " ">> \o title \o <<"\n", "\n">>
    \o <<"D", "a", "t", "e", ":", " ">> \o date_str \o <<"\n">>
    \o (IF withSubject
        THEN <<"S", "u", "b", "j", "e", "c", "t", ":", " ">> \o subject \o <<"\n">>
        ELSE <<>>)
    \o (IF tags # <<>>
        THEN <<"T", "a", "g", "s", ":", " ">> \o JoinTags(tags) \o <<"\n">>
        ELSE <<>>)
    \o <<"\n">> \o content \o <<"\n">>

\* formatted_content of add_note
AddText(title, ts, subject, content) ==
  Render(title, DateStr(ts), subject,
         Truthy(subject) /\ Truthy(Strip(subject)),
         extract_tags(content), content)

\* formatted_content of edit_note
EditText(note_meta, new_content) ==
  Render(note_meta.title, DateStr(note_meta.created), note_meta.subject,
         Truthy(note_meta.subject), extract_tags(new_content), new_content)

\* metadata of add_note
Metadata(title, ts, subject, content) ==
  [id |-> NoteId(title, ts),
   title |-> title,
   created |-> ts,
   modified |-> ts,
   subject |-> IF Truthy(subject) THEN subject ELSE None,
   tags |-> extract_tags(content),
   filename |-> Filename(NoteId(title, ts))]

(***************************************************************************)
(* Index operations.                                                       *)
(***************************************************************************)
\* positions of the entries with the given id
Positions(index, note_id) == { i \in 1..Len(index) : index[i].id = note_id }

\* next((note for note in index if note["id"] == note_id), None): its position,
\* 0 for None
FindPos(index, note_id) ==
  IF Positions(index, note_id) = {} THEN 0
  ELSE CHOOSE i \in Positions(index, note_id) :
         \A j \in Positions(index, note_id) : i <= j

\* open(filepath, "w").write(text)
WriteFile(fs, filename, text) == (filename :> text) @@ fs

\* os.remove(filepath) guarded by os.path.exists(filepath)
RemoveFile(fs, filename) == [n \in DOMAIN fs \ {filename} |-> fs[n]]

\* index.append(metadata)
AddIndex(index, metadata) == Append(index, metadata)

\* note_meta of edit_note after "Update metadata"
EditMeta(note_meta, ts, new_content) ==
  [note_meta EXCEPT !.modified = ts, !.tags = extract_tags(new_content)]

\* edit_note that updates every entry of the index
EditIndex_all(index, note_id, ts, new_content) ==
  [i \in 1..Len(index) |-> EditMeta(index[i], ts, new_content)]

\* the index edit_note saves: the first entry with the id replaced
EditIndex(index, note_id, ts, new_content) ==
  [i \in 1..Len(index) |->
     IF i = FindPos(index, note_id)
     THEN EditMeta(index[i], ts, new_content) ELSE index[i]]

\* delete_note with the comparison of the filter inverted
RECURSIVE DeleteIndex_inverted(_, _)
DeleteIndex_inverted(index, note_id) ==
  IF index = <<>> THEN <<>>
  ELSE IF Head(index).id # note_id
       THEN DeleteIndex_inverted(Tail(index), note_id)
       ELSE <<Head(index)>> \o DeleteIndex_inverted(Tail(index), note_id)

\* [note for note in index if note["id"] != note_id]
RECURSIVE DeleteIndex(_, _)
DeleteIndex(index, note_id) ==
  IF index = <<>> THEN <<>>
  ELSE IF Head(index).id = note_id THEN DeleteIndex(Tail(index), note_id)
       ELSE <<Head(index)>> \o DeleteIndex(Tail(index), note_id)

(***************************************************************************)
(* The operations, one call at a time.                                     *)
(***************************************************************************)
\* last: op and res name the call and its outcome, id and content its
\* arguments, hadFile whether the note file existed when the call looked for
\* it, oldTags the tags of the index entry the call found
NoCall == [op |-> "none", res |-> "none", id |-> <<>>, content |-> <<>>,
           hadFile |-> FALSE, oldTags |-> <<>>]

\* reply: op names the read-only call, note_id, title, subject, tag, limit and
\* query are its arguments, res is its outcome, text the string it returns
\* when that is a note or a message about a note, items the positions in the
\* index of the entries it lists, in the order of the listing
NoReply == [op |-> "none", note_id |-> <<>>, title |-> <<>>, subject |-> <<>>,
            tag |-> <<>>, limit |-> 0, query |-> <<>>, res |-> "none",
            text |-> <<>>, items |-> <<>>, groups |-> <<>>]

\* the callers of the interleaved calls
Procs == {1, 2}

\* the locals of a caller: the arguments of its call (op, title, content,
\* subject, note_id), the clock value it read (ts), and the index.json and
\* tags.json contents it loaded (index, tags_file)
NoLocals == [op |-> "none", title |-> <<>>, content |-> <<>>, subject |-> <<>>,
             note_id |-> <<>>, ts |-> 0, index |-> <<>>,
             tags_file |-> [st |-> "absent", val |-> EmptyMap]]

Init ==
  /\ files = EmptyMap
  /\ indexFile = [st |-> "absent", val |-> <<>>]
  /\ tagsFile = [st |-> "absent", val |-> EmptyMap]
  /\ now = 0
  /\ issued = <<>>
  /\ last = NoCall
  /\ pc = [p \in Procs |-> "idle"]
  /\ loc = [p \in Procs |-> NoLocals]
  /\ trace = [p \in Procs |-> <<>>]
  /\ started = 0
  /\ reply = NoReply

\* the clock advances
Tick ==
  /\ now < MaxClock
  /\ now' = now + 1
  /\ UNCHANGED <<files, indexFile, tagsFile, issued, last, procVars>>
  /\ reply' = NoReply

\* add_note(title, content, subject)
AddNote(title, content, subject) ==
  LET note_id == NoteId(title, now)
      index == get_note_index(ensure_index(indexFile))
  IN  /\ Len(issued) < MaxAdds
      /\ files' = WriteFile(files, Filename(note_id),
                            AddText(title, now, subject, content))
      /\ indexFile' = save_note_index(
                        AddIndex(index, Metadata(title, now, subject, content)))
      /\ tagsFile' = update_tags(ensure_tags(tagsFile), note_id,
                                 extract_tags(content))
      /\ issued' = Append(issued, note_id)
      /\ last' = [op |-> "add", res |-> "ok", id |-> note_id,
                  content |-> content,
                  hadFile |-> Filename(note_id) \in DOMAIN files,
                  oldTags |-> <<>>]
      /\ UNCHANGED <<now, procVars>>
      /\ reply' = NoReply

\* edit_note that saves the index it changed in memory before it looks for
\* the file
EditNote_saves(note_id, new_content) ==
  LET index == get_note_index(ensure_index(indexFile))
      pos == FindPos(index, note_id)
  IN  IF pos = 0
      THEN /\ indexFile' = ensure_index(indexFile)
           /\ tagsFile' = ensure_tags(tagsFile)
           /\ last' = [op |-> "edit", res |-> "not_found", id |-> note_id,
                       content |-> new_content, hadFile |-> FALSE,
                       oldTags |-> <<>>]
           /\ UNCHANGED <<files, now, issued, procVars>>
           /\ reply' = NoReply
      ELSE IF index[pos].filename \notin DOMAIN files
      THEN /\ indexFile' = save_note_index(
                             EditIndex(index, note_id, now, new_content))
           /\ tagsFile' = ensure_tags(tagsFile)
           /\ last' = [op |-> "edit", res |-> "file_not_found", id |-> note_id,
                       content |-> new_content, hadFile |-> FALSE,
                       oldTags |-> index[pos].tags]
           /\ UNCHANGED <<files, now, issued, procVars>>
           /\ reply' = NoReply
      ELSE /\ files' = WriteFile(files, index[pos].filename,
                                 EditText(index[pos], new_content))
           /\ indexFile' = save_note_index(
                             EditIndex(index, note_id, now, new_content))
           /\ tagsFile' = update_tags(ensure_tags(tagsFile), note_id,
                                      extract_tags(new_content))
           /\ last' = [op |-> "edit", res |-> "ok", id |-> note_id,
                       content |-> new_content, hadFile |-> TRUE,
                       oldTags |-> index[pos].tags]
           /\ UNCHANGED <<now, issued, procVars>>
           /\ reply' = NoReply

\* edit_note(note_id, new_content)
EditNote(note_id, new_content) ==
  LET index == get_note_index(ensure_index(indexFile))
      pos == FindPos(index, note_id)
  IN  IF pos = 0
      THEN /\ indexFile' = ensure_index(indexFile)
           /\ tagsFile' = ensure_tags(tagsFile)
           /\ last' = [op |-> "edit", res |-> "not_found", id |-> note_id,
                       content |-> new_content, hadFile |-> FALSE,
                       oldTags |-> IF pos = 0 THEN <<>> ELSE index[pos].tags]
           /\ UNCHANGED <<files, now, issued, procVars>>
           /\ reply' = NoReply
      ELSE IF index[pos].filename \notin DOMAIN files
      THEN /\ indexFile' = ensure_index(indexFile)
           /\ tagsFile' = ensure_tags(tagsFile)
           /\ last' = [op |-> "edit", res |-> "file_not_found", id |-> note_id,
                       content |-> new_content, hadFile |-> FALSE,
                       oldTags |-> IF pos = 0 THEN <<>> ELSE index[pos].tags]
           /\ UNCHANGED <<files, now, issued, procVars>>
           /\ reply' = NoReply
      ELSE /\ files' = WriteFile(files, index[pos].filename,
                                 EditText(index[pos], new_content))
           /\ indexFile' = save_note_index(
                             EditIndex(index, note_id, now, new_content))
           /\ tagsFile' = update_tags(ensure_tags(tagsFile), note_id,
                                      extract_tags(new_content))
           /\ last' = [op |-> "edit", res |-> "ok", id |-> note_id,
                       content |-> new_content, hadFile |-> TRUE,
                       oldTags |-> index[pos].tags]
           /\ UNCHANGED <<now, issued, procVars>>
           /\ reply' = NoReply

\* delete_note(note_id)
DeleteNote(note_id) ==
  LET index == get_note_index(ensure_index(indexFile))
      pos == FindPos(index, note_id)
  IN  IF pos = 0
      THEN /\ indexFile' = ensure_index(indexFile)
           /\ tagsFile' = ensure_tags(tagsFile)
           /\ last' = [op |-> "delete", res |-> "not_found", id |-> note_id,
                       content |-> <<>>, hadFile |-> FALSE, oldTags |-> <<>>]
           /\ UNCHANGED <<files, now, issued, procVars>>
           /\ reply' = NoReply
      ELSE /\ files' = RemoveFile(files, index[pos].filename)
           /\ indexFile' = save_note_index(DeleteIndex(index, note_id))
           /\ tagsFile' = delete_tags(ensure_tags(tagsFile), note_id)
           /\ last' = [op |-> "delete", res |-> "ok", id |-> note_id,
                       content |-> <<>>,
                       hadFile |-> index[pos].filename \in DOMAIN files,
                       oldTags |-> index[pos].tags]
           /\ UNCHANGED <<now, issued, procVars>>
           /\ reply' = NoReply

\* an id no add_note call of the model returns
UnknownId == <<"?">>
\* the ids the callers pass to edit_note and delete_note
KnownIds == Range(issued) \cup {UnknownId}

Next ==
  \/ Tick
  \/ \E in \in AddInputs : AddNote(in.title, in.content, in.subject)
  \/ \E note_id \in KnownIds, new_content \in Contents :
       EditNote(note_id, new_content)
  \/ \E note_id \in KnownIds : DeleteNote(note_id)

Spec == Init /\ [][Next]_vars


(***************************************************************************)
(* The environment: a note file disappears from the notes directory        *)
(* without a call of delete_note (the case the os.path.exists tests of     *)
(* read_note, edit_note and delete_note are written for).                  *)
(***************************************************************************)
LoseFile ==
  /\ \E filename \in DOMAIN files : files' = RemoveFile(files, filename)
  /\ UNCHANGED <<indexFile, tagsFile, now, issued, last, procVars>>
  /\ reply' = NoReply

NextEnv == Next \/ LoseFile

SpecEnv == Init /\ [][NextEnv]_vars

(***************************************************************************)
(* Interleaved calls.  A call is a sequence of steps, one per access to a  *)
(* store; the steps of the callers interleave.  The first step of a call   *)
(* runs ensure_notes_directory and reads the clock; edit_note and          *)
(* delete_note also load and search the index in it.                       *)
(***************************************************************************)
\* add_note with the index saved before the file is written
AddSteps_index_first ==
  <<"add_load", "add_save", "add_write", "add_tags_load", "add_tags_save">>
\* the positions of add_note after its first step, in program order
AddSteps ==
  <<"add_write", "add_load", "add_save", "add_tags_load", "add_tags_save">>
\* the positions of edit_note after the lookup, in program order
EditSteps ==
  <<"edit_check", "edit_write", "edit_save", "edit_tags_load", "edit_tags_save">>
\* the positions of delete_note after the lookup, in program order
DeleteSteps == <<"del_remove", "del_save", "del_tags_load", "del_tags_save">>

StepsOf(op) ==
  CASE op = "add" -> AddSteps
    [] op = "edit" -> EditSteps
    [] OTHER -> DeleteSteps

\* the position that follows label in steps; the call returns after the last
After(steps, label) ==
  LET i == CHOOSE k \in 1..Len(steps) : steps[k] = label
  IN  IF i = Len(steps) THEN "idle" ELSE steps[i + 1]

\* caller p moves from its position to the next one of its call
Advance(p) == pc' = [pc EXCEPT ![p] = After(StepsOf(loc[p].op), pc[p])]

Returned(p, op, res, hadFile, oldTags) ==
  last' = [op |-> op, res |-> res, id |-> loc[p].note_id,
           content |-> loc[p].content, hadFile |-> hadFile,
           oldTags |-> oldTags]

\* the add_note calls in flight
AddsInFlight == { p \in Procs : pc[p] # "idle" /\ loc[p].op = "add" }

\* add_note, up to the file write
AddCall(p, in) ==
  /\ pc[p] = "idle"
  /\ started < MaxCalls
  /\ Len(issued) + Cardinality(AddsInFlight) < MaxAdds
  /\ indexFile' = ensure_index(indexFile)
  /\ tagsFile' = ensure_tags(tagsFile)
  /\ loc' = [loc EXCEPT ![p] =
               [NoLocals EXCEPT !.op = "add", !.title = in.title,
                                !.content = in.content, !.subject = in.subject,
                                !.note_id = NoteId(in.title, now), !.ts = now]]
  /\ pc' = [pc EXCEPT ![p] = AddSteps[1]]
  /\ trace' = [trace EXCEPT ![p] = <<>>]
  /\ started' = started + 1
  /\ UNCHANGED <<files, now, issued, last>>
  /\ reply' = NoReply

\* add_note: the file is written
AddWrite(p) ==
  /\ pc[p] = "add_write"
  /\ files' = WriteFile(files, Filename(loc[p].note_id),
                        AddText(loc[p].title, loc[p].ts, loc[p].subject,
                                loc[p].content))
  /\ Advance(p)
  /\ trace' = [trace EXCEPT ![p] = Append(@, "file")]
  /\ UNCHANGED <<indexFile, tagsFile, now, issued, last, loc, started>>
  /\ reply' = NoReply

\* add_note: open or write raises; the exception ends the call, the file is
\* left as it was or created empty
AddWriteFail(p) ==
  /\ pc[p] = "add_write"
  /\ \/ /\ files' = files
        /\ trace' = trace
     \/ /\ files' = WriteFile(files, Filename(loc[p].note_id), <<>>)
        /\ trace' = [trace EXCEPT ![p] = Append(@, "file")]
  /\ pc' = [pc EXCEPT ![p] = "idle"]
  /\ Returned(p, "add", "io_error", FALSE, <<>>)
  /\ UNCHANGED <<indexFile, tagsFile, now, issued, loc, started>>
  /\ reply' = NoReply

\* add_note: index = get_note_index()
AddLoadIndex(p) ==
  /\ pc[p] = "add_load"
  /\ loc' = [loc EXCEPT ![p].index = get_note_index(indexFile)]
  /\ Advance(p)
  /\ UNCHANGED <<files, indexFile, tagsFile, now, issued, last, trace, started>>
  /\ reply' = NoReply

\* add_note that appends to the index as it is at the time of the save
AddSaveIndex_reload(p) ==
  /\ pc[p] = "add_save"
  /\ indexFile' = save_note_index(
                    AddIndex(get_note_index(indexFile),
                             Metadata(loc[p].title, loc[p].ts, loc[p].subject,
                                      loc[p].content)))
  /\ Advance(p)
  /\ trace' = [trace EXCEPT ![p] = Append(@, "index")]
  /\ UNCHANGED <<files, tagsFile, now, issued, last, loc, started>>
  /\ reply' = NoReply

\* add_note: index.append(metadata); save_note_index(index)
AddSaveIndex(p) ==
  /\ pc[p] = "add_save"
  /\ indexFile' = save_note_index(
                    AddIndex(loc[p].index,
                             Metadata(loc[p].title, loc[p].ts, loc[p].subject,
                                      loc[p].content)))
  /\ Advance(p)
  /\ trace' = [trace EXCEPT ![p] = Append(@, "index")]
  /\ UNCHANGED <<files, tagsFile, now, issued, last, loc, started>>
  /\ reply' = NoReply

\* update_tags and the tag loop of delete_note: tags_index = get_tags()
TagsLoad(p) ==
  /\ pc[p] \in {"add_tags_load", "edit_tags_load", "del_tags_load"}
  /\ loc' = [loc EXCEPT ![p].tags_file = tagsFile]
  /\ Advance(p)
  /\ UNCHANGED <<files, indexFile, tagsFile, now, issued, last, trace, started>>
  /\ reply' = NoReply

\* update_tags of add_note: save_tags(tags_index), and the return
AddTagsSave(p) ==
  /\ pc[p] = "add_tags_save"
  /\ tagsFile' = update_tags(loc[p].tags_file, loc[p].note_id,
                             extract_tags(loc[p].content))
  /\ Advance(p)
  /\ trace' = [trace EXCEPT ![p] = Append(@, "tags")]
  /\ issued' = Append(issued, loc[p].note_id)
  /\ Returned(p, "add", "ok", FALSE, <<>>)
  /\ UNCHANGED <<files, indexFile, now, loc, started>>
  /\ reply' = NoReply

\* edit_note, up to the test of the file
EditCall(p, note_id, new_content) ==
  LET index == get_note_index(ensure_index(indexFile))
  IN  /\ pc[p] = "idle"
      /\ started < MaxCalls
      /\ indexFile' = ensure_index(indexFile)
      /\ tagsFile' = ensure_tags(tagsFile)
      /\ loc' = [loc EXCEPT ![p] =
                   [NoLocals EXCEPT !.op = "edit", !.content = new_content,
                                    !.note_id = note_id, !.ts = now,
                                    !.index = index]]
      /\ trace' = [trace EXCEPT ![p] = <<>>]
      /\ started' = started + 1
      /\ IF FindPos(index, note_id) = 0
         THEN /\ pc' = pc
              /\ last' = [op |-> "edit", res |-> "not_found", id |-> note_id,
                          content |-> new_content, hadFile |-> FALSE,
                          oldTags |-> <<>>]
         ELSE /\ pc' = [pc EXCEPT ![p] = EditSteps[1]]
              /\ last' = last
      /\ UNCHANGED <<files, now, issued>>
      /\ reply' = NoReply

\* the entry edit_note found
Found(p) == loc[p].index[FindPos(loc[p].index, loc[p].note_id)]

\* edit_note: os.path.exists(filepath)
EditCheck(p) ==
  /\ pc[p] = "edit_check"
  /\ IF Found(p).filename \in DOMAIN files
     THEN /\ Advance(p)
          /\ last' = last
     ELSE /\ pc' = [pc EXCEPT ![p] = "idle"]
          /\ Returned(p, "edit", "file_not_found", FALSE, Found(p).tags)
  /\ UNCHANGED <<files, indexFile, tagsFile, now, issued, loc, trace, started>>
  /\ reply' = NoReply

\* edit_note: the file is written
EditWrite(p) ==
  /\ pc[p] = "edit_write"
  /\ files' = WriteFile(files, Found(p).filename,
                        EditText(Found(p), loc[p].content))
  /\ Advance(p)
  /\ trace' = [trace EXCEPT ![p] = Append(@, "file")]
  /\ UNCHANGED <<indexFile, tagsFile, now, issued, last, loc, started>>
  /\ reply' = NoReply

\* edit_note: the entry is replaced and the index saved
EditSaveIndex(p) ==
  /\ pc[p] = "edit_save"
  /\ indexFile' = save_note_index(
                    EditIndex(loc[p].index, loc[p].note_id, loc[p].ts,
                              loc[p].content))
  /\ Advance(p)
  /\ trace' = [trace EXCEPT ![p] = Append(@, "index")]
  /\ UNCHANGED <<files, tagsFile, now, issued, last, loc, started>>
  /\ reply' = NoReply

\* update_tags of edit_note: save_tags(tags_index), and the return
EditTagsSave(p) ==
  /\ pc[p] = "edit_tags_save"
  /\ tagsFile' = update_tags(loc[p].tags_file, loc[p].note_id,
                             extract_tags(loc[p].content))
  /\ Advance(p)
  /\ trace' = [trace EXCEPT ![p] = Append(@, "tags")]
  /\ Returned(p, "edit", "ok", TRUE, Found(p).tags)
  /\ UNCHANGED <<files, indexFile, now, issued, loc, started>>
  /\ reply' = NoReply

\* delete_note, up to the removal of the file
DeleteCall(p, note_id) ==
  LET index == get_note_index(ensure_index(indexFile))
  IN  /\ pc[p] = "idle"
      /\ started < MaxCalls
      /\ indexFile' = ensure_index(indexFile)
      /\ tagsFile' = ensure_tags(tagsFile)
      /\ loc' = [loc EXCEPT ![p] =
                   [NoLocals EXCEPT !.op = "delete", !.note_id = note_id,
                                    !.ts = now, !.index = index]]
      /\ trace' = [trace EXCEPT ![p] = <<>>]
      /\ started' = started + 1
      /\ IF FindPos(index, note_id) = 0
         THEN /\ pc' = pc
              /\ last' = [op |-> "delete", res |-> "not_found", id |-> note_id,
                          content |-> <<>>, hadFile |-> FALSE,
                          oldTags |-> <<>>]
         ELSE /\ pc' = [pc EXCEPT ![p] = DeleteSteps[1]]
              /\ last' = last
      /\ UNCHANGED <<files, now, issued>>
      /\ reply' = NoReply

\* delete_note: the file is removed when it exists
DeleteRemove(p) ==
  /\ pc[p] = "del_remove"
  /\ files' = RemoveFile(files, Found(p).filename)
  /\ Advance(p)
  /\ trace' = [trace EXCEPT ![p] =
                 IF Found(p).filename \in DOMAIN files
                 THEN Append(@, "file") ELSE @]
  /\ UNCHANGED <<indexFile, tagsFile, now, issued, last, loc, started>>
  /\ reply' = NoReply

\* delete_note: the filtered index is saved
DeleteSaveIndex(p) ==
  /\ pc[p] = "del_save"
  /\ indexFile' = save_note_index(DeleteIndex(loc[p].index, loc[p].note_id))
  /\ Advance(p)
  /\ trace' = [trace EXCEPT ![p] = Append(@, "index")]
  /\ UNCHANGED <<files, tagsFile, now, issued, last, loc, started>>
  /\ reply' = NoReply

\* delete_note: save_tags(tags_index), and the return
DeleteTagsSave(p) ==
  /\ pc[p] = "del_tags_save"
  /\ tagsFile' = delete_tags(loc[p].tags_file, loc[p].note_id)
  /\ Advance(p)
  /\ trace' = [trace EXCEPT ![p] = Append(@, "tags")]
  /\ Returned(p, "delete", "ok", FALSE, Found(p).tags)
  /\ UNCHANGED <<files, indexFile, now, issued, loc, started>>
  /\ reply' = NoReply

\* the ids the interleaved callers pass: returned ones, the ones of the
\* add_note calls in flight, and an unknown one
StepIds == KnownIds \cup { loc[p].note_id : p \in AddsInFlight }

NextSteps ==
  \/ Tick
  \/ \E p \in Procs, in \in AddInputs : AddCall(p, in)
  \/ \E p \in Procs : AddWrite(p)
  \/ \E p \in Procs : AddWriteFail(p)
  \/ \E p \in Procs : AddLoadIndex(p)
  \/ \E p \in Procs : AddSaveIndex(p)
  \/ \E p \in Procs : TagsLoad(p)
  \/ \E p \in Procs : AddTagsSave(p)
  \/ \E p \in Procs, note_id \in StepIds, new_content \in Contents :
       EditCall(p, note_id, new_content)
  \/ \E p \in Procs : EditCheck(p)
  \/ \E p \in Procs : EditWrite(p)
  \/ \E p \in Procs : EditSaveIndex(p)
  \/ \E p \in Procs : EditTagsSave(p)
  \/ \E p \in Procs, note_id \in StepIds : DeleteCall(p, note_id)
  \/ \E p \in Procs : DeleteRemove(p)
  \/ \E p \in Procs : DeleteSaveIndex(p)
  \/ \E p \in Procs : DeleteTagsSave(p)

SpecSteps == Init /\ [][NextSteps]_vars

(***************************************************************************)
(* Properties.                                                             *)
(***************************************************************************)
\* the persisted note index and tag index, as the operations load them
Index == get_note_index(indexFile)
TagsIndex == get_tags(tagsFile)

\* note id n is in the id list of tag t
Listed(tags_index, t, n) == t \in DOMAIN tags_index /\ n \in Range(tags_index[t])
\* an index entry with id n carries tag t
Carries(index, t, n) ==
  \E i \in 1..Len(index) : index[i].id = n /\ t \in Range(index[i].tags)

IndexIds == { Index[i].id : i \in 1..Len(Index) }
TagIds == UNION { Range(TagsIndex[t]) : t \in DOMAIN TagsIndex }
IndexTags == UNION { Range(Index[i].tags) : i \in 1..Len(Index) }

\* C1: the tag index and the note index agree in both directions: note id n
\* is in the id list of tag t iff an index entry with id n carries tag t.
TagIndexAgrees ==
  \A n \in IndexIds \cup TagIds, t \in IndexTags \cup DOMAIN TagsIndex :
    Listed(TagsIndex, t, n) <=> Carries(Index, t, n)

\* C2: after every completed call the persisted tag index contains no tag
\* whose id list is empty.
NoEmptyTagList == \A t \in DOMAIN TagsIndex : TagsIndex[t] # <<>>

\* C3: the note index never holds two entries with the same id.
UniqueIndexIds ==
  \A i, j \in 1..Len(Index) : Index[i].id = Index[j].id => i = j

\* C4: an id returned by add_note is never returned again by a later
\* add_note.
IdsNeverReused ==
  \A i, j \in 1..Len(issued) : issued[i] = issued[j] => i = j

\* C5: after every completed add_note, edit_note or delete_note call every
\* entry of the note index has a filename for which a file exists.
EveryEntryHasFile ==
  \A i \in 1..Len(Index) : Index[i].filename \in DOMAIN files

\* a delete_note has removed one of two notes, the other is still indexed
C5Witness ==
  /\ last.op = "delete" /\ last.res = "ok" /\ last.hadFile
  /\ Len(Index) >= 1

\* C6: after delete_note(id) returns its confirmation the id is in no entry of
\* the note index, in no id list of the tag index, and the file <id>.md is
\* absent, whether or not the file existed when delete_note was called.
DeleteComplete ==
  (last.op = "delete" /\ last.res = "ok") =>
    /\ last.id \notin IndexIds
    /\ last.id \notin TagIds
    /\ Filename(last.id) \notin DOMAIN files

\* delete_note has confirmed the deletion of a tagged note whose file was
\* already gone
C6Witness ==
  /\ last.op = "delete" /\ last.res = "ok" /\ ~last.hadFile
  /\ last.oldTags # <<>>

\* C7: after edit_note(id, new_content) succeeds the entry of the note has
\* tags extract_tags(new_content), and the tag index lists the id under
\* exactly the tags of new_content: no tag the note carried before and
\* new_content does not contain lists the id any more.
EditReplacesTags ==
  (last.op = "edit" /\ last.res = "ok") =>
    /\ FindPos(Index, last.id) # 0
    /\ Index[FindPos(Index, last.id)].tags = extract_tags(last.content)
    /\ \A t \in DOMAIN TagsIndex \cup Range(last.oldTags)
                  \cup Range(extract_tags(last.content)) :
         Listed(TagsIndex, t, last.id)
           <=> t \in Range(extract_tags(last.content))

\* an edit has succeeded whose new content lacks a tag the note carried
C7Witness ==
  /\ last.op = "edit" /\ last.res = "ok"
  /\ extract_tags(last.content) # <<>>
  /\ \E t \in Range(last.oldTags) : t \notin Range(extract_tags(last.content))

\* what a successful edit_note(note_id, ...) step leaves unchanged
EditFrame(note_id) ==
  LET old == get_note_index(indexFile)
      new == get_note_index(indexFile')
      pos == FindPos(old, note_id)
  IN  /\ Len(new) = Len(old)
      /\ \A i \in 1..Len(old) :
           IF i = pos
           THEN /\ new[i].id = old[i].id
                /\ new[i].created = old[i].created
                /\ new[i].filename = old[i].filename
                /\ new[i].title = old[i].title
                /\ new[i].subject = old[i].subject
           ELSE new[i] = old[i]
      /\ DOMAIN files' = DOMAIN files
      /\ \A filename \in DOMAIN files :
           filename # old[pos].filename => files'[filename] = files[filename]
      /\ \A t \in DOMAIN get_tags(tagsFile) \cup DOMAIN get_tags(tagsFile') :
           \A n \in (IndexIds \cup TagIds) \ {note_id} :
             Listed(get_tags(tagsFile'), t, n) <=> Listed(get_tags(tagsFile), t, n)

\* C8: edit_note leaves the id, created, filename, title and subject of the
\* edited entry unchanged, and leaves every other index entry, every other
\* note file and the tag-index memberships of every other note unchanged.
EditKeepsFrame ==
  [][(last'.op = "edit" /\ last'.res = "ok"
        /\ EditNote(last'.id, last'.content))
       => EditFrame(last'.id)]_vars

\* an edit has succeeded while the index holds an entry of another note
C8Witness ==
  /\ last.op = "edit" /\ last.res = "ok"
  /\ \E i \in 1..Len(Index) : Index[i].id # last.id


\* C9: the index save of add_note is a last-writer-wins full rewrite: what a
\* caller saves is the index it loaded plus its own entry, whatever the
\* other caller has saved since the load (so an interleaving loses an entry).
AddSaveOverwrites ==
  [][\A p \in Procs :
       (pc[p] = "add_save" /\ pc'[p] # "add_save")
         => get_note_index(indexFile')
              = Append(loc[p].index,
                       Metadata(loc[p].title, loc[p].ts, loc[p].subject,
                                loc[p].content))]_vars

\* two interleaved add_note calls with different ids have both returned, both
\* note files exist, and the index holds the entry of only one of them
C9Witness ==
  /\ started = 2 /\ Len(issued) = 2
  /\ \A p \in Procs : pc[p] = "idle" /\ loc[p].op = "add"
  /\ loc[1].note_id # loc[2].note_id
  /\ \A p \in Procs : Filename(loc[p].note_id) \in DOMAIN files
  /\ Len(Index) = 1

\* the place of a store in the order file, note index, tag index
Rank(store) ==
  CASE store = "file" -> 1
    [] store = "index" -> 2
    [] OTHER -> 3

\* C10: in every call the stores are written in the order note file, note
\* index, tag index, no later store before an earlier one; and when the file
\* write of add_note fails the call ends there, having written neither the
\* note index nor the tag index.  (The empty index.json and tags.json that
\* ensure_notes_directory creates on first use are not counted as writes.)
StoresInOrder ==
  /\ [](\A p \in Procs : \A i, j \in 1..Len(trace[p]) :
          i < j => Rank(trace[p][i]) < Rank(trace[p][j]))
  /\ [][\A p \in Procs :
          (pc[p] = "add_write" /\ pc'[p] = "idle")
            => /\ indexFile' = indexFile
               /\ tagsFile' = tagsFile
               /\ \A i \in 1..Len(trace'[p]) : trace'[p][i] = "file"]_vars

\* one add_note call has written the three stores and returned, another one
\* has been ended by a failing file write
C10Witness ==
  /\ last.op = "add" /\ last.res = "io_error"
  /\ \E p \in Procs : trace[p] = <<"file", "index", "tags">>

(***************************************************************************)
(* Read-only operations.  Each runs ensure_notes_directory, loads what it  *)
(* needs and returns a string; reply records the call and what it found.   *)
(***************************************************************************)
\* file.read() of a file opened in text mode: "\r\n" and "\r" are read as
\* "\n" (universal newlines); open(filepath, "w") writes "\n" as it is
RECURSIVE ReadText(_)
ReadText(text) ==
  IF text = <<>> THEN <<>>
  ELSE IF Head(text) = "\r"
       THEN IF Len(text) >= 2 /\ text[2] = "\n"
            THEN <<"\n">> \o ReadText(SubSeq(text, 3, Len(text)))
            ELSE <<"\n">> \o ReadText(Tail(text))
       ELSE <<Head(text)>> \o ReadText(Tail(text))

\* "s and s.strip()" is false
Blank(s) == Strip(s) = <<>>

\* the notes directory, as it is written in a path
NotesDirPath == <<"n", "o", "t", "e", "s", "/">>

\* "Note not found. Please check the ID or title."
NotFoundMsg ==
  <<"N", "o", "t", "e", " ", "n", "o", "t", " ", "f", "o", "u", "n", "d",
    ".", " ", "P", "l", "e", "a", "s", "e", " ", "c", "h", "e", "c", "k",
    " ", "t", "h", "e", " ", "I", "D", " ", "o", "r", " ", "t", "i", "t",
    "l", "e", ".">>

\* the message of read_note that repeats the one for a missing entry
FileNotFoundMsg_same(filename) == NotFoundMsg

\* f"Note file not found: {filepath}"
FileNotFoundMsg(filename) ==
  <<"N", "o", "t", "e", " ", "f", "i", "l", "e", " ", "n", "o", "t", " ",
    "f", "o", "u", "n", "d", ":", " ">>
    \o NotesDirPath \o filename

\* positions of the entries whose title equals the given one ignoring case
TitlePositions(index, title) ==
  { i \in 1..Len(index) : Lower(index[i].title) = Lower(title) }

\* next((note for note in index if note["title"].lower() == title.lower()),
\* None): its position, 0 for None
FindTitlePos(index, title) ==
  IF TitlePositions(index, title) = {} THEN 0
  ELSE CHOOSE i \in TitlePositions(index, title) :
         \A j \in TitlePositions(index, title) : i <= j

\* read_note that looks up by title when the id matches no entry
ReadLookup_fallback(index, note_id, title) ==
  IF ~Blank(note_id) /\ FindPos(index, note_id) # 0 THEN FindPos(index, note_id)
  ELSE IF ~Blank(title) THEN FindTitlePos(index, title)
  ELSE 0

\* "Find the note in the index" of read_note: the position of note_meta, 0
\* for None
ReadLookup(index, note_id, title) ==
  IF ~Blank(note_id) THEN FindPos(index, note_id)
  ELSE IF ~Blank(title) THEN FindTitlePos(index, title)
  ELSE 0

\* read_note(note_id, title)
ReadNote(note_id, title) ==
  LET index == get_note_index(ensure_index(indexFile))
      pos == ReadLookup(index, note_id, title)
      base == [NoReply EXCEPT !.op = "read", !.note_id = note_id,
                              !.title = title]
  IN  /\ indexFile' = ensure_index(indexFile)
      /\ tagsFile' = ensure_tags(tagsFile)
      /\ reply' =
           IF pos = 0
           THEN [base EXCEPT !.res = "not_found", !.text = NotFoundMsg]
           ELSE IF index[pos].filename \notin DOMAIN files
           THEN [base EXCEPT !.res = "file_not_found", !.items = <<pos>>,
                             !.text = FileNotFoundMsg(index[pos].filename)]
           ELSE [base EXCEPT !.res = "ok", !.items = <<pos>>,
                             !.text = ReadText(files[index[pos].filename])]
      /\ UNCHANGED <<files, now, issued, last, procVars>>

(***************************************************************************)
(* add_note followed by read_note, over inputs that include a carriage     *)
(* return in the content, an empty title and an empty content.             *)
(***************************************************************************)
EdgeInputs ==
  { [title |-> <<"A">>, content |-> <<"c", "\r", "x">>, subject |-> <<"s">>],
    [title |-> <<>>, content |-> <<"x">>, subject |-> <<>>],
    [title |-> <<"a">>, content |-> <<>>, subject |-> <<>>] }

NextAddRead ==
  \/ Tick
  \/ \E in \in EdgeInputs : AddNote(in.title, in.content, in.subject)
  \/ \E note_id \in KnownIds : ReadNote(note_id, <<>>)

SpecAddRead == Init /\ [][NextAddRead]_vars

\* C11: add_note(title, content) followed immediately by read_note with the
\* returned id returns the generated header followed by the original content
\* unchanged, for every title and content.
RoundTrip ==
  (reply.op = "read" /\ last.op = "add" /\ last.res = "ok"
     /\ reply.note_id = last.id)
  => /\ reply.res = "ok"
     /\ reply.text = AddText(Index[Len(Index)].title, Index[Len(Index)].created,
                             Index[Len(Index)].subject, last.content)

\* C18: add_note rejects a call with an empty title or an empty content; a
\* call that succeeds had a non-empty title and a non-empty content.
AddRequiresInput ==
  (last.op = "add" /\ last.res = "ok")
  => /\ last.content # <<>>
     /\ Index[Len(Index)].title # <<>>

(***************************************************************************)
(* read_note by id and by title, over notes whose titles differ only in    *)
(* case and whose files may have disappeared.                              *)
(***************************************************************************)
LookupInputs ==
  { [title |-> <<"a">>, content |-> <<"x">>, subject |-> <<>>],
    [title |-> <<"A">>, content |-> <<"#", "c">>, subject |-> <<"s">>] }

\* the ids and titles the callers pass to read_note
LookupIds == KnownIds \cup {<<>>, <<" ">>}
LookupTitles == {<<>>, <<"A">>}

NextReadNote ==
  \/ Tick
  \/ \E in \in LookupInputs : AddNote(in.title, in.content, in.subject)
  \/ LoseFile
  \/ \E note_id \in LookupIds, title \in LookupTitles : ReadNote(note_id, title)

SpecReadNote == Init /\ [][NextReadNote]_vars

\* C16: read_note looks up by id whenever a non-blank id is given, also when
\* a title is given and also when the id matches no entry (the title is then
\* not consulted); with only a title it answers with the first entry in index
\* order whose title equals the given title ignoring case.
ReadLookupRule ==
  reply.op = "read" =>
    LET byId == { i \in 1..Len(Index) : Index[i].id = reply.note_id }
        byTitle == { i \in 1..Len(Index) :
                       Lower(Index[i].title) = Lower(reply.title) }
    IN  IF Strip(reply.note_id) # <<>>
        THEN /\ byId = {} => reply.res = "not_found" /\ reply.items = <<>>
             /\ byId # {} => /\ Len(reply.items) = 1
                             /\ reply.items[1] \in byId
        ELSE Strip(reply.title) # <<>> =>
             /\ byTitle = {} => reply.res = "not_found" /\ reply.items = <<>>
             /\ byTitle # {} => /\ Len(reply.items) = 1
                                /\ reply.items[1] \in byTitle
                                /\ \A j \in byTitle : reply.items[1] <= j

\* an id that matches no entry was given together with a title that matches
C16Witness ==
  /\ reply.op = "read"
  /\ reply.note_id = UnknownId
  /\ reply.title = <<"A">>
  /\ Len(Index) = 2
  /\ Index[1].title = <<"a">>
  /\ Index[2].title = <<"A">>
  /\ reply.res = "not_found"

\* C17: read_note answers a missing note with a message: 'Note not found'
\* when no index entry matches, the different 'Note file not found' when an
\* entry matches but its file is absent; neither is the result of a
\* successful read.
ReadMessages ==
  reply.op = "read" =>
    LET noEntry == SubSeq(NotFoundMsg, 1, 14)
        noFile == SubSeq(FileNotFoundMsg(<<>>), 1, 19)
    IN  /\ reply.res \in {"ok", "not_found", "file_not_found"}
        /\ reply.items = <<>> =>
             reply.res = "not_found" /\ reply.text = NotFoundMsg
        /\ (reply.items # <<>>
              /\ Index[reply.items[1]].filename \notin DOMAIN files) =>
             /\ reply.res = "file_not_found"
             /\ reply.text = FileNotFoundMsg(Index[reply.items[1]].filename)
             /\ reply.text # NotFoundMsg
             /\ SubSeq(reply.text, 1, 14) # noEntry
        /\ (reply.items # <<>>
              /\ Index[reply.items[1]].filename \in DOMAIN files) =>
             /\ reply.res = "ok"
             /\ Len(reply.text) >= 14 => SubSeq(reply.text, 1, 14) # noEntry
             /\ Len(reply.text) >= 19 => SubSeq(reply.text, 1, 19) # noFile

\* an entry was found whose file is gone
C17Witness ==
  /\ reply.op = "read"
  /\ reply.res = "file_not_found"
  /\ reply.items # <<>>
  /\ Index[reply.items[1]].filename \notin DOMAIN files

(***************************************************************************)
(* search_notes.                                                           *)
(***************************************************************************)
\* needle in hay
Contains(hay, needle) ==
  \E k \in 0..(Len(hay) - Len(needle)) :
    SubSeq(hay, k + 1, k + Len(needle)) = needle

\* the members of a set of positions in ascending order: the order in which
\* a comprehension over the index yields them
RECURSIVE InIndexOrder(_)
InIndexOrder(S) ==
  IF S = {} THEN <<>>
  ELSE LET m == CHOOSE i \in S : \A j \in S : i <= j
       IN  <<m>> \o InIndexOrder(S \ {m})

\* the tag branch of search_notes: [note for note in index if note["id"] in
\* tag_notes], as positions
TagMatches(index, tags_index, tag) ==
  LET tag_notes == IF tag \in DOMAIN tags_index THEN tags_index[tag] ELSE <<>>
  IN  InIndexOrder({ i \in 1..Len(index) : index[i].id \in Range(tag_notes) })

\* title_matches, as positions
TitleMatches(index, query) ==
  InIndexOrder({ i \in 1..Len(index) : Contains(Lower(index[i].title), query) })

\* the content scan from position i on: an entry equal to one already in
\* results is passed over, a file that cannot be opened is skipped
RECURSIVE ContentScan(_, _, _, _, _)
ContentScan(index, fs, query, results, i) ==
  IF i > Len(index) THEN results
  ELSE IF \E k \in 1..Len(results) : index[results[k]] = index[i]
       THEN ContentScan(index, fs, query, results, i + 1)
  ELSE IF index[i].filename \notin DOMAIN fs
       THEN ContentScan(index, fs, query, results, i + 1)
  ELSE IF Contains(Lower(ReadText(fs[index[i].filename])), query)
       THEN ContentScan(index, fs, query, Append(results, i), i + 1)
  ELSE ContentScan(index, fs, query, results, i + 1)

\* results of search_notes, as positions of the index
SearchResults(index, tags_index, fs, query) ==
  IF query # <<>> /\ Head(query) = "#"
  THEN TagMatches(index, tags_index, Tail(query))
  ELSE ContentScan(index, fs, query, TitleMatches(index, query), 1)

\* f"No notes found matching '{query}'."
NoMatchMsg(query) ==
  <<"N", "o", " ", "n", "o", "t", "e", "s", " ", "f", "o", "u", "n", "d",
    " ", "m", "a", "t", "c", "h", "i", "n", "g", " ", "'">>
    \o query \o <<"'", ".">>

\* search_notes(query); reply.items holds the entries of the listing
SearchNotes(query) ==
  LET index == get_note_index(ensure_index(indexFile))
      tags_index == get_tags(ensure_tags(tagsFile))
      results == SearchResults(index, tags_index, files, Lower(query))
      base == [NoReply EXCEPT !.op = "search", !.query = query]
  IN  /\ indexFile' = ensure_index(indexFile)
      /\ tagsFile' = ensure_tags(tagsFile)
      /\ reply' =
           IF results = <<>>
           THEN [base EXCEPT !.res = "empty", !.text = NoMatchMsg(Lower(query))]
           ELSE [base EXCEPT !.res = "ok", !.items = results]
      /\ UNCHANGED <<files, now, issued, last, procVars>>

SearchInputs ==
  { [title |-> <<"a">>, content |-> <<"#", "A", " ", "b">>, subject |-> <<>>],
    [title |-> <<"B">>, content |-> <<"#", "c">>, subject |-> <<>>] }

\* the queries the callers pass to search_notes
Queries == { <<"#", "A">>, <<"#", "c">>, <<"B">> }

NextSearch ==
  \/ Tick
  \/ \E in \in SearchInputs : AddNote(in.title, in.content, in.subject)
  \/ LoseFile
  \/ \E query \in Queries : SearchNotes(query)

SpecSearch == Init /\ [][NextSearch]_vars

\* C12: search_notes("#" + t) returns exactly the index entries whose id is
\* listed under tag t, in index order, for every tag t that extract_tags can
\* produce, upper-case letters included.
TagSearchExact ==
  (reply.op = "search" /\ reply.query # <<>> /\ Head(reply.query) = "#")
  => LET t == Tail(reply.query)
     IN  /\ \A i \in 1..Len(Index) :
               (\E k \in 1..Len(reply.items) : reply.items[k] = i)
                 <=> Listed(TagsIndex, t, Index[i].id)
         /\ \A k \in 1..Len(reply.items), l \in 1..Len(reply.items) :
               k < l => reply.items[k] < reply.items[l]

\* C13: for a query not starting with '#', search_notes returns an index
\* entry iff the lower-cased query is a substring of its lower-cased title or
\* of its lower-cased file text (an unreadable file is skipped), and no
\* entry appears twice.
TextSearchExact ==
  (reply.op = "search" /\ ~(reply.query # <<>> /\ Head(reply.query) = "#"))
  => LET q == Lower(reply.query)
         inTitle(i) == Contains(Lower(Index[i].title), q)
         inFile(i) ==
           /\ Index[i].filename \in DOMAIN files
           /\ Contains(Lower(ReadText(files[Index[i].filename])), q)
     IN  /\ \A i \in 1..Len(Index) :
               (\E k \in 1..Len(reply.items) : reply.items[k] = i)
                 <=> (inTitle(i) \/ inFile(i))
         /\ \A k \in 1..Len(reply.items), l \in 1..Len(reply.items) :
               k # l => reply.items[k] # reply.items[l]

(***************************************************************************)
(* list_notes.                                                             *)
(***************************************************************************)
\* list_notes whose filters add up instead of narrowing
ListFilter_any(index, tags_index, subject, tag) ==
  LET tag_notes == IF tag \in DOMAIN tags_index THEN tags_index[tag] ELSE <<>>
  IN  InIndexOrder(
        { i \in 1..Len(index) :
            \/ Blank(subject) /\ Blank(tag)
            \/ ~Blank(subject) /\ index[i].subject = subject
            \/ ~Blank(tag) /\ index[i].id \in Range(tag_notes) })

\* "Apply filters" of list_notes: the positions of the entries that remain,
\* in index order
ListFilter(index, tags_index, subject, tag) ==
  LET tag_notes == IF tag \in DOMAIN tags_index THEN tags_index[tag] ELSE <<>>
      bySubject == IF ~Blank(subject)
                   THEN { i \in 1..Len(index) : index[i].subject = subject }
                   ELSE 1..Len(index)
      byTag == IF ~Blank(tag)
               THEN { i \in bySubject : index[i].id \in Range(tag_notes) }
               ELSE bySubject
  IN  InIndexOrder(byTag)

\* position p put into a list sorted by created descending, before the
\* entries that are not newer than it
InsertDesc_first(index, sorted, p) ==
  LET before == { k \in 1..Len(sorted) :
                    index[sorted[k]].created > index[p].created }
      n == Cardinality(before)
  IN  SubSeq(sorted, 1, n) \o <<p>> \o SubSeq(sorted, n + 1, Len(sorted))

\* position p put into a list sorted by created descending, after the
\* entries that are at least as new
InsertDesc(index, sorted, p) ==
  LET before == { k \in 1..Len(sorted) :
                    index[sorted[k]].created >= index[p].created }
      n == Cardinality(before)
  IN  SubSeq(sorted, 1, n) \o <<p>> \o SubSeq(sorted, n + 1, Len(sorted))

\* index.sort(key=lambda x: x["created"], reverse=True): list.sort is stable,
\* also with reverse=True
RECURSIVE SortByCreated(_, _, _)
SortByCreated(index, ps, sorted) ==
  IF ps = <<>> THEN sorted
  ELSE SortByCreated(index, Tail(ps), InsertDesc(index, sorted, Head(ps)))

\* index[:limit]
Slice(ps, limit) ==
  IF limit >= 0
  THEN SubSeq(ps, 1, IF limit < Len(ps) THEN limit ELSE Len(ps))
  ELSE SubSeq(ps, 1, IF Len(ps) + limit > 0 THEN Len(ps) + limit ELSE 0)

\* "No notes found matching the criteria."
NoNotesMsg ==
  <<"N", "o", " ", "n", "o", "t", "e", "s", " ", "f", "o", "u", "n", "d",
    " ", "m", "a", "t", "c", "h", "i", "n", "g", " ", "t", "h", "e", " ",
    "c", "r", "i", "t", "e", "r", "i", "a", ".">>

\* list_notes that saves the list it has filtered, sorted and cut
ListNotes_saves(subject, tag, limit) ==
  LET index == get_note_index(ensure_index(indexFile))
      tags_index == get_tags(ensure_tags(tagsFile))
      listed == Slice(SortByCreated(index,
                        ListFilter(index, tags_index, subject, tag), <<>>),
                      limit)
      base == [NoReply EXCEPT !.op = "list", !.subject = subject,
                              !.tag = tag, !.limit = limit]
  IN  /\ indexFile' = save_note_index([k \in 1..Len(listed) |-> index[listed[k]]])
      /\ tagsFile' = ensure_tags(tagsFile)
      /\ reply' =
           IF listed = <<>>
           THEN [base EXCEPT !.res = "empty", !.text = NoNotesMsg]
           ELSE [base EXCEPT !.res = "ok", !.items = listed]
      /\ UNCHANGED <<files, now, issued, last, procVars>>

\* list_notes(subject, tag, limit); reply.items holds the entries of the
\* listing
ListNotes(subject, tag, limit) ==
  LET index == get_note_index(ensure_index(indexFile))
      tags_index == get_tags(ensure_tags(tagsFile))
      listed == Slice(SortByCreated(index,
                        ListFilter(index, tags_index, subject, tag), <<>>),
                      limit)
      base == [NoReply EXCEPT !.op = "list", !.subject = subject,
                              !.tag = tag, !.limit = limit]
  IN  /\ indexFile' = ensure_index(indexFile)
      /\ tagsFile' = ensure_tags(tagsFile)
      /\ reply' =
           IF listed = <<>>
           THEN [base EXCEPT !.res = "empty", !.text = NoNotesMsg]
           ELSE [base EXCEPT !.res = "ok", !.items = listed]
      /\ UNCHANGED <<files, now, issued, last, procVars>>

\* the default limit of list_notes
DefaultLimit == 10

\* the arguments the callers pass to list_notes
ListArgs ==
  { [subject |-> <<>>, tag |-> <<>>, limit |-> DefaultLimit],
    [subject |-> <<"s">>, tag |-> <<>>, limit |-> DefaultLimit],
    [subject |-> <<>>, tag |-> <<"a">>, limit |-> DefaultLimit],
    [subject |-> <<"s">>, tag |-> <<"c">>, limit |-> DefaultLimit],
    [subject |-> <<" ">>, tag |-> <<>>, limit |-> 1] }

NextList ==
  \/ Tick
  \/ \E in \in AddInputs : AddNote(in.title, in.content, in.subject)
  \/ \E note_id \in KnownIds, new_content \in Contents :
       EditNote(note_id, new_content)
  \/ \E a \in ListArgs : ListNotes(a.subject, a.tag, a.limit)

SpecList == Init /\ [][NextList]_vars

\* C14: list_notes returns the entries ordered by created descending, and
\* two entries with equal created keep their relative order from the index.
ListOrdered ==
  reply.op = "list" =>
    \A k \in 1..Len(reply.items), l \in 1..Len(reply.items) :
      k < l =>
        /\ Index[reply.items[k]].created >= Index[reply.items[l]].created
        /\ Index[reply.items[k]].created = Index[reply.items[l]].created
             => reply.items[k] < reply.items[l]

\* two entries created in the same second are listed
C14Witness ==
  /\ reply.op = "list"
  /\ Len(reply.items) = 2
  /\ Index[reply.items[1]].created = Index[reply.items[2]].created

\* C15: list_notes(subject, tag) lists, before truncation, exactly the index
\* entries that satisfy every given filter (a filter is given when it is not
\* blank): subject equal to the given subject and id present in the tag
\* index's list for the given tag; after edit_note took a tag out of a
\* note's content, list_notes with that tag no longer lists the note.
ListFiltersAnd ==
  (reply.op = "list" /\ reply.limit >= Len(Index)) =>
    \A i \in 1..Len(Index) :
      (\E k \in 1..Len(reply.items) : reply.items[k] = i)
        <=> /\ Strip(reply.subject) # <<>> => Index[i].subject = reply.subject
            /\ Strip(reply.tag) # <<>> =>
                 Listed(TagsIndex, reply.tag, Index[i].id)

\* the last call was an edit that took the tag out of a note, and the list
\* for that tag does not show the note
C15Witness ==
  /\ reply.op = "list"
  /\ last.op = "edit" /\ last.res = "ok"
  /\ reply.tag \in Range(last.oldTags)
  /\ reply.tag \notin Range(extract_tags(last.content))
  /\ last.id \in IndexIds
  /\ \A k \in 1..Len(reply.items) : Index[reply.items[k]].id # last.id

(***************************************************************************)
(* Storage initialisation and damaged index files.  index.json or          *)
(* tags.json is damaged when its text is no longer JSON (truncated,        *)
(* overwritten with other text): st is "corrupt", and val keeps what the   *)
(* text held before the damage, which json.load no longer returns.         *)
(***************************************************************************)
\* ensure_notes_directory()
Ensure ==
  /\ indexFile' = ensure_index(indexFile)
  /\ tagsFile' = ensure_tags(tagsFile)
  /\ last' = [NoCall EXCEPT !.op = "ensure"]
  /\ reply' = NoReply
  /\ UNCHANGED <<files, now, issued, procVars>>

\* the text of index.json is damaged outside the program
CorruptIndex ==
  /\ indexFile.st = "ok"
  /\ indexFile' = [indexFile EXCEPT !.st = "corrupt"]
  /\ last' = NoCall
  /\ reply' = NoReply
  /\ UNCHANGED <<files, tagsFile, now, issued, procVars>>

\* the text of tags.json is damaged outside the program
CorruptTags ==
  /\ tagsFile.st = "ok"
  /\ tagsFile' = [tagsFile EXCEPT !.st = "corrupt"]
  /\ last' = NoCall
  /\ reply' = NoReply
  /\ UNCHANGED <<files, indexFile, now, issued, procVars>>

NextStorage ==
  \/ Ensure
  \/ CorruptIndex
  \/ CorruptTags
  \/ \E in \in AddInputs : AddNote(in.title, in.content, in.subject)
  \/ \E note_id \in KnownIds, new_content \in Contents :
       EditNote(note_id, new_content)
  \/ \E note_id \in KnownIds : DeleteNote(note_id)
  \/ \E note_id \in KnownIds : ReadNote(note_id, <<>>)
  \/ ListNotes(<<>>, <<>>, DefaultLimit)

SpecStorage == Init /\ [][NextStorage]_vars

\* C19: ensure_notes_directory is idempotent; it creates index.json as [] and
\* tags.json as {} only when they are absent and never changes a file that
\* exists, whatever it holds.
EnsureIdempotent ==
  [][Ensure =>
       /\ indexFile.st # "absent" => indexFile' = indexFile
       /\ indexFile.st = "absent" => indexFile' = [st |-> "ok", val |-> <<>>]
       /\ tagsFile.st # "absent" => tagsFile' = tagsFile
       /\ tagsFile.st = "absent" => tagsFile' = [st |-> "ok", val |-> EmptyMap]
       /\ files' = files
       /\ ensure_index(indexFile') = indexFile'
       /\ ensure_tags(tagsFile') = tagsFile']_vars

\* ensure_notes_directory was called on an index that holds a note
C19Witness ==
  /\ last.op = "ensure"
  /\ indexFile.st = "ok"
  /\ Len(Index) >= 1

\* what a call answers while index.json is damaged
DamagedIndexAnswers ==
  indexFile.st = "corrupt" =>
    /\ Index = <<>>
    /\ last.op \in {"edit", "delete"} => last.res = "not_found"
    /\ reply.op = "read" =>
         reply.res = "not_found" /\ reply.text = NotFoundMsg
    /\ reply.op = "list" =>
         reply.res = "empty" /\ reply.text = NoNotesMsg

\* what add_note persists when index.json or tags.json is damaged
AddOverDamage ==
  (issued' # issued) =>
    /\ indexFile.st = "corrupt" =>
         /\ indexFile'.st = "ok"
         /\ Len(indexFile'.val) = 1
         /\ indexFile'.val[1].id = last'.id
    /\ tagsFile.st = "corrupt" =>
         /\ tagsFile'.st = "ok"
         /\ DOMAIN tagsFile'.val = Range(extract_tags(last'.content))
         /\ \A t \in DOMAIN tagsFile'.val : tagsFile'.val[t] = <<last'.id>>

\* C20: when index.json (or tags.json) does not parse as JSON, loading it
\* yields the empty list (or mapping) and no operation reports an error:
\* read_note, edit_note and delete_note answer not-found, list_notes answers
\* its empty-result message, and a following add_note persists an index that
\* contains only the new note.
DamagedLoadsEmpty ==
  /\ []DamagedIndexAnswers
  /\ [][AddOverDamage]_vars
  /\ [](tagsFile.st = "corrupt" => TagsIndex = EmptyMap)

\* read_note was asked for a note that index.json held before the damage
C20Witness ==
  /\ indexFile.st = "corrupt"
  /\ reply.op = "read"
  /\ \E i \in 1..Len(indexFile.val) : indexFile.val[i].id = reply.note_id
  /\ reply.res = "not_found"

(***************************************************************************)
(* organize_notes_by_subject.                                              *)
(***************************************************************************)
\* the characters that occur in subjects, in code point order
CodeOrder ==
  <<" ", "A", "B", "U", "a", "c", "d", "e", "g", "i", "n", "o", "r", "s",
    "t", "z">>

\* the rank of a character in code point order
CodePoint(ch) == CHOOSE k \in 1..Len(CodeOrder) : CodeOrder[k] = ch

\* s < t of two str
RECURSIVE StrLess(_, _)
StrLess(s, t) ==
  IF t = <<>> THEN FALSE
  ELSE IF s = <<>> THEN TRUE
  ELSE IF Head(s) = Head(t) THEN StrLess(Tail(s), Tail(t))
  ELSE CodePoint(Head(s)) < CodePoint(Head(t))

\* "Uncategorized"
Uncategorized ==
  <<"U", "n", "c", "a", "t", "e", "g", "o", "r", "i", "z", "e", "d">>

\* subject = note.get("subject") or "Uncategorized"
GroupName(note) == IF Truthy(note.subject) THEN note.subject ELSE Uncategorized

\* the keys of subjects, in the order of their first entry in the index
RECURSIVE FirstSeen(_, _, _)
FirstSeen(index, i, names) ==
  IF i > Len(index) THEN names
  ELSE IF GroupName(index[i]) \in Range(names)
       THEN FirstSeen(index, i + 1, names)
       ELSE FirstSeen(index, i + 1, Append(names, GroupName(index[i])))

\* organize_notes_by_subject that outputs the groups as the dict holds them
GroupOrder_inserted(index, S) == FirstSeen(index, 1, <<>>)

\* sorted(subjects.items()): the names in ascending order
RECURSIVE GroupOrder(_, _)
GroupOrder(index, S) ==
  IF S = {} THEN <<>>
  ELSE LET m == CHOOSE n \in S : \A o \in S \ {n} : StrLess(n, o)
       IN  <<m>> \o GroupOrder(index, S \ {m})

\* the groups of organize_notes_by_subject in output order, each with its
\* entries (as positions) sorted by created, newest first
OrganizeGroups(index) ==
  LET names == GroupOrder(index, { GroupName(index[i]) : i \in 1..Len(index) })
  IN  [k \in 1..Len(names) |->
         [name |-> names[k],
          notes |-> SortByCreated(index,
                      InIndexOrder({ i \in 1..Len(index) :
                                       GroupName(index[i]) = names[k] }),
                      <<>>)]]

\* organize_notes_by_subject(); reply.groups holds the groups of the summary
Organize ==
  /\ indexFile' = ensure_index(indexFile)
  /\ tagsFile' = ensure_tags(tagsFile)
  /\ reply' = [NoReply EXCEPT
                 !.op = "organize", !.res = "ok",
                 !.groups = OrganizeGroups(
                              get_note_index(ensure_index(indexFile)))]
  /\ UNCHANGED <<files, now, issued, last, procVars>>

OrganizeInputs ==
  { [title |-> <<"a">>, content |-> <<"x">>, subject |-> <<>>],
    [title |-> <<"b">>, content |-> <<"x">>, subject |-> <<"s">>],
    [title |-> <<"c">>, content |-> <<"x">>, subject |-> <<"B">>] }

NextOrganize ==
  \/ Tick
  \/ \E in \in OrganizeInputs : AddNote(in.title, in.content, in.subject)
  \/ \E note_id \in KnownIds : DeleteNote(note_id)
  \/ Organize

SpecOrganize == Init /\ [][NextOrganize]_vars

\* C21: organize_notes_by_subject places every index entry in exactly one
\* group: the group named by its subject, or the single group
\* 'Uncategorized' when the subject is missing, null or the empty string;
\* groups are output in ascending order of subject name and the entries of a
\* group in descending order of created.
OrganizePartitions ==
  reply.op = "organize" =>
    LET groups == reply.groups
        places(i) == { <<g, k>> \in (1..Len(groups)) \X (1..Len(Index)) :
                         k <= Len(groups[g].notes) /\ groups[g].notes[k] = i }
    IN  /\ \A i \in 1..Len(Index) :
             /\ Cardinality(places(i)) = 1
             /\ \A pl \in places(i) :
                  groups[pl[1]].name =
                    IF Index[i].subject = None \/ Index[i].subject = <<>>
                    THEN Uncategorized ELSE Index[i].subject
        /\ \A g \in 1..Len(groups), h \in 1..Len(groups) :
             g < h => StrLess(groups[g].name, groups[h].name)
        /\ \A g \in 1..Len(groups) :
             \A k \in 1..Len(groups[g].notes), l \in 1..Len(groups[g].notes) :
               k < l => Index[groups[g].notes[k]].created
                          >= Index[groups[g].notes[l]].created

\* a note without a subject and a note with one are grouped, the subject's
\* name sorting before 'Uncategorized'
C21Witness ==
  /\ reply.op = "organize"
  /\ Len(reply.groups) = 2
  /\ reply.groups[1].name = <<"B">>
  /\ reply.groups[2].name = Uncategorized
  /\ Index[reply.groups[2].notes[1]].subject = None

(***************************************************************************)
(* The id and the file name of a note, over every title up to MaxTitleLen  *)
(* made of letters, '_', '-', white space, full stops and path separators. *)
(***************************************************************************)
TitleChars == {"a", "B", "_", "-", " ", "\t", ".", "/", "\\"}

Titles == UNION { [1..n -> TitleChars] : n \in 0..MaxTitleLen }

\* the first add_note call on an empty store
AddFirst(title) ==
  /\ issued = <<>>
  /\ AddNote(title, <<"x">>, <<>>)

NextSlug ==
  \/ Tick
  \/ \E title \in Titles : AddFirst(title)

SpecSlug == Init /\ [][NextSlug]_vars

\* C22: for every title, the id and the file name built by add_note contain
\* no path separator and no '.' other than the '.md' suffix, so the note file
\* is created directly inside the notes directory.
IdHasNoPath ==
  (last.op = "add" /\ last.res = "ok") =>
    /\ Range(last.id) \cap {"/", "\\", "."} = {}
    /\ \E i \in 1..Len(Index) :
         /\ Index[i].id = last.id
         /\ Index[i].filename = last.id \o <<".", "m", "d">>
         /\ Index[i].filename \in DOMAIN files
    /\ \A filename \in DOMAIN files :
         Range(SubSeq(filename, 1, Len(filename) - 3)) \cap {"/", "\\", "."} = {}

\* a note was added whose title holds a path separator and a full stop
C22Witness ==
  /\ last.op = "add" /\ last.res = "ok"
  /\ Len(Index) = 1
  /\ {"/", "."} \subseteq Range(Index[1].title)
  /\ Index[1].filename \in DOMAIN files

\* C26: the slug of an id is the title without the characters outside
\* letters, digits, '_', white space and '-', trimmed, lower-cased, every
\* interior run of white space replaced by a single hyphen: it holds no
\* white space, and no two adjacent hyphens that were not in the title.
SlugCollapsesSpace ==
  (last.op = "add" /\ last.res = "ok" /\ Len(Index) = 1) =>
    LET title == Index[1].title
        slug == SubSeq(last.id, 3, Len(last.id) - 2)
    IN  /\ \A k \in 1..Len(slug) : ~IsSpace(slug[k])
        /\ (\E k \in 1..(Len(slug) - 1) : slug[k] = "-" /\ slug[k + 1] = "-")
             => \E k \in 1..(Len(title) - 1) :
                  title[k] = "-" /\ title[k + 1] = "-"

(***************************************************************************)
(* Notes whose content repeats a tag and whose subject is white space,     *)
(* added, edited and deleted.                                              *)
(***************************************************************************)
RepeatInputs ==
  { [title |-> <<"a">>, content |-> <<"#", "a", " ", "#", "b", " ", "#", "a">>,
     subject |-> <<" ">>],
    [title |-> <<"b">>, content |-> <<"#", "c">>, subject |-> <<"s">>] }

RepeatContents == { <<"#", "c", " ", "#", "c">>, <<"x">> }

NextRepeat ==
  \/ Tick
  \/ \E in \in RepeatInputs : AddNote(in.title, in.content, in.subject)
  \/ \E note_id \in KnownIds, new_content \in RepeatContents :
       EditNote(note_id, new_content)
  \/ \E note_id \in KnownIds : DeleteNote(note_id)

SpecRepeat == Init /\ [][NextRepeat]_vars

\* C23: the file edit_note(id, c) writes is the text add_note's header rules
\* produce for the same title, subject, creation date and content c; the
\* 'Subject:' line is there after an edit exactly when add_note wrote it.
EditRendersAsAdd ==
  (last.op = "edit" /\ last.res = "ok") =>
    \E i \in 1..Len(Index) :
      /\ Index[i].id = last.id
      /\ \A j \in 1..(i - 1) : Index[j].id # last.id
      /\ files[Index[i].filename] =
           AddText(Index[i].title, Index[i].created, Index[i].subject,
                   last.content)

\* C24: when the content of add_note or edit_note repeats a #tag, the
\* 'Tags:' line of the written file lists each distinct tag once, in order
\* of first appearance.
TagsLineDistinct ==
  (last.op \in {"add", "edit"} /\ last.res = "ok") =>
    \E i \in 1..Len(Index) :
      /\ Index[i].id = last.id
      /\ LET text == files[Index[i].filename]
             header == SubSeq(text, 1, Len(text) - Len(last.content) - 1)
             line == extract_tags(header)
             tags == extract_tags(last.content)
             first(t) == CHOOSE k \in 1..Len(tags) :
                           tags[k] = t /\ \A l \in 1..(k - 1) : tags[l] # t
         IN  /\ Range(line) = Range(tags)
             /\ \A k \in 1..Len(line), l \in 1..Len(line) :
                  k < l => line[k] # line[l] /\ first(line[k]) < first(line[l])

\* C25: after any sequence of add_note, edit_note and delete_note calls no id
\* list of the tag index holds the same note id twice.
NoIdTwice ==
  \A t \in DOMAIN TagsIndex :
    \A k \in 1..Len(TagsIndex[t]), l \in 1..Len(TagsIndex[t]) :
      k # l => TagsIndex[t][k] # TagsIndex[t][l]

\* a note was edited with the tags it had, its content repeating a tag
C25Witness ==
  /\ last.op = "edit" /\ last.res = "ok"
  /\ last.oldTags = extract_tags(last.content)
  /\ Len(last.oldTags) = 2
  /\ last.oldTags[1] = last.oldTags[2]
  /\ Listed(TagsIndex, last.oldTags[1], last.id)

(***************************************************************************)
(* generate_note_summary, and the read-only operations together.           *)
(***************************************************************************)
\* generate_note_summary(note_id, title): it reads the note with read_note
\* and returns its message, or a summary made from the text alone;
\* reply.items holds the note it summarised
Summarize(note_id, title) ==
  LET index == get_note_index(ensure_index(indexFile))
      pos == ReadLookup(index, note_id, title)
      base == [NoReply EXCEPT !.op = "summary", !.note_id = note_id,
                              !.title = title]
  IN  /\ indexFile' = ensure_index(indexFile)
      /\ tagsFile' = ensure_tags(tagsFile)
      /\ reply' =
           IF pos = 0
           THEN [base EXCEPT !.res = "not_found", !.text = NotFoundMsg]
           ELSE IF index[pos].filename \notin DOMAIN files
           THEN [base EXCEPT !.res = "file_not_found", !.items = <<pos>>,
                             !.text = FileNotFoundMsg(index[pos].filename)]
           ELSE [base EXCEPT !.res = "ok", !.items = <<pos>>]
      /\ UNCHANGED <<files, now, issued, last, procVars>>

NextReads ==
  \/ \E in \in AddInputs : AddNote(in.title, in.content, in.subject)
  \/ LoseFile
  \/ \E note_id \in KnownIds : ReadNote(note_id, <<>>)
  \/ \E a \in ListArgs : ListNotes(a.subject, a.tag, a.limit)
  \/ \E query \in Queries : SearchNotes(query)
  \/ Organize
  \/ \E note_id \in KnownIds : Summarize(note_id, <<>>)

SpecReads == Init /\ [][NextReads]_vars

\* C29: on an initialized store, read_note, list_notes, search_notes,
\* organize_notes_by_subject and generate_note_summary leave the note index,
\* the tag index and every note file unchanged, whatever their arguments and
\* whatever they return.
ReadsChangeNothing ==
  [][(reply'.op # "none" /\ indexFile.st # "absent" /\ tagsFile.st # "absent")
       => /\ indexFile' = indexFile
          /\ tagsFile' = tagsFile
          /\ files' = files]_vars

\* list_notes dropped an entry from the list it returned
C29Witness ==
  /\ reply.op = "list"
  /\ reply.subject = <<"s">>
  /\ Len(Index) = 2
  /\ Len(reply.items) = 1

(***************************************************************************)
(* list_notes with limits below, at and above the number of notes.         *)
(***************************************************************************)
\* the limits the callers pass to list_notes
Limits == {-1, 0, 1, 2}

NextLimit ==
  \/ Tick
  \/ \E in \in AddInputs : AddNote(in.title, in.content, in.subject)
  \/ \E limit \in Limits : ListNotes(<<>>, <<>>, limit)

SpecLimit == Init /\ [][NextLimit]_vars

\* C27: for every integer limit, zero and negative values included, and n
\* matching notes, list_notes lists at most max(limit, 0) entries, namely the
\* first min(limit, n) entries of the sorted matches, and it returns the
\* 'No notes found' message when that list is empty.
LimitCuts ==
  reply.op = "list" =>
    LET sorted == SortByCreated(Index,
                    ListFilter(Index, TagsIndex, reply.subject, reply.tag),
                    <<>>)
        n == Len(sorted)
        m == IF reply.limit < n THEN reply.limit ELSE n
    IN  /\ Len(reply.items) <= (IF reply.limit > 0 THEN reply.limit ELSE 0)
        /\ reply.items = SubSeq(sorted, 1, m)
        /\ reply.items = <<>> =>
             reply.res = "empty" /\ reply.text = NoNotesMsg

(***************************************************************************)
(* Calls that end with a message, on a store that may have lost files.     *)
(***************************************************************************)
NextFail ==
  \/ \E in \in AddInputs : AddNote(in.title, in.content, in.subject)
  \/ \E note_id \in KnownIds, new_content \in Contents :
       EditNote(note_id, new_content)
  \/ \E note_id \in KnownIds : DeleteNote(note_id)
  \/ LoseFile

SpecFail == Init /\ [][NextFail]_vars

\* the three stores after the step are the stores before it; a store file
\* that did not exist is created empty
StoresKept ==
  /\ get_note_index(indexFile') = get_note_index(indexFile)
  /\ indexFile.st # "absent" => indexFile' = indexFile
  /\ get_tags(tagsFile') = get_tags(tagsFile)
  /\ tagsFile.st # "absent" => tagsFile' = tagsFile
  /\ files' = files

\* C28: an edit_note or delete_note call that returns a not-found message
\* or, for edit_note, the file-not-found message leaves the persisted note
\* index, the persisted tag index and every note file unchanged; the modified
\* and tags values edit_note sets in memory are not saved.
FailedCallsKeepStores ==
  [][/\ (last'.op = "edit" /\ last'.res \in {"not_found", "file_not_found"}
           /\ EditNote(last'.id, last'.content)) => StoresKept
     /\ (last'.op = "delete" /\ last'.res = "not_found"
           /\ DeleteNote(last'.id)) => StoresKept]_vars

\* edit_note found the entry but not the file, with tags that differ from
\* the tags of the entry
C28Witness ==
  /\ last.op = "edit"
  /\ last.res = "file_not_found"
  /\ \E i \in 1..Len(Index) :
       /\ Index[i].id = last.id
       /\ Index[i].tags # extract_tags(last.content)
       /\ Index[i].filename \notin DOMAIN files

(***************************************************************************)
(* edit_note and delete_note on the same existing note, their steps        *)
(* interleaved.  The behaviour starts from the store add_note leaves after *)
(* one call at clock 0.                                                    *)
(***************************************************************************)
\* the arguments of the add_note call that made the note
RaceInput == [title |-> <<"a">>, content |-> <<"#", "a">>, subject |-> <<>>]

RaceId == NoteId(RaceInput.title, 0)

InitRace ==
  /\ files = WriteFile(EmptyMap, Filename(RaceId),
                       AddText(RaceInput.title, 0, RaceInput.subject,
                               RaceInput.content))
  /\ indexFile = save_note_index(
                   AddIndex(<<>>, Metadata(RaceInput.title, 0,
                                           RaceInput.subject,
                                           RaceInput.content)))
  /\ tagsFile = update_tags([st |-> "ok", val |-> EmptyMap], RaceId,
                            extract_tags(RaceInput.content))
  /\ now = 0
  /\ issued = <<RaceId>>
  /\ last = [op |-> "add", res |-> "ok", id |-> RaceId,
             content |-> RaceInput.content, hadFile |-> FALSE,
             oldTags |-> <<>>]
  /\ pc = [p \in Procs |-> "idle"]
  /\ loc = [p \in Procs |-> NoLocals]
  /\ trace = [p \in Procs |-> <<>>]
  /\ started = 0
  /\ reply = NoReply

NextRace ==
  \/ \E p \in Procs, new_content \in Contents : EditCall(p, RaceId, new_content)
  \/ \E p \in Procs : EditCheck(p)
  \/ \E p \in Procs : EditWrite(p)
  \/ \E p \in Procs : EditSaveIndex(p)
  \/ \E p \in Procs : EditTagsSave(p)
  \/ \E p \in Procs : DeleteCall(p, RaceId)
  \/ \E p \in Procs : DeleteRemove(p)
  \/ \E p \in Procs : DeleteSaveIndex(p)
  \/ \E p \in Procs : DeleteTagsSave(p)
  \/ \E p \in Procs : TagsLoad(p)

SpecRace == InitRace /\ [][NextRace]_vars

\* C30: when an edit_note(id, c) call and a delete_note(id) call on the same
\* existing note interleave, then once both have returned the three stores
\* agree about the note: its file, its index entry and its tag-index
\* memberships are all present or all absent, and a note deleted with
\* confirmation is not brought back by the edit.
RaceAgrees ==
  (/\ \A p \in Procs : pc[p] = "idle"
   /\ \E p \in Procs, q \in Procs :
        loc[p].op = "edit" /\ loc[q].op = "delete")
  => LET present ==
           /\ Filename(RaceId) \in DOMAIN files
           /\ \E i \in 1..Len(Index) :
                /\ Index[i].id = RaceId
                /\ \A t \in Range(Index[i].tags) : Listed(TagsIndex, t, RaceId)
         absent ==
           /\ Filename(RaceId) \notin DOMAIN files
           /\ RaceId \notin IndexIds
           /\ RaceId \notin TagIds
         confirmed ==
           \E q \in Procs :
             loc[q].op = "delete" /\ "tags" \in Range(trace[q])
     IN  /\ present \/ absent
         /\ confirmed => absent

====
